---- MODULE Spec2Model ----
(***************************************************************************)
(* Model of the agent orchestration core of elizao_agentic_framework.py:   *)
(* AgentTask / AgentMemory, the BaseAgent.execute_task lifecycle engine,   *)
(* BaseAgent._update_memory, and the AgentOrchestrator queue, routing and  *)
(* continuous cycle.                                                       *)
(*                                                                         *)
(* Python strings that the code inspects (task.type) are sequences of      *)
(* one-character strings, so that lower() and the substring test `in` are  *)
(* computed as the code computes them.  Python dicts are TLA+ records /    *)
(* functions over their keys.                                              *)
(***************************************************************************)
EXTENDS Integers, Sequences, FiniteSets, TLC

VARIABLES
    task_queue,   \* AgentOrchestrator.task_queue: list of AgentTask
    agents,       \* AgentOrchestrator.agents: role -> agent_id
    state,        \* BaseAgent.state, per agent_id
    memory,       \* BaseAgent.memory (AgentMemory), per agent_id
    frame,        \* locals of the execute_task call in progress, per agent_id
    pc,           \* position of the run_continuous_cycle / process_tasks coroutine
    sleep_for,    \* seconds passed to the asyncio.sleep in progress (0: none)
    clock,        \* datetime.now(), a logical clock
    next_id,      \* number of the next task a producer creates
    calls,        \* history: ids of the tasks handed to execute_task, in order
    n_calls,      \* history: number of execute_task calls made, per agent_id
    last_return,  \* history: what the last execute_task call of each agent gave
                  \*          back, with the exception a phase raised in it, if any
    trace,        \* history: values BaseAgent.state took during the current/last call
    updates,      \* history: every entry _update_memory appended to recent_actions
    skipped,      \* history: tasks that took the "No agent available" branch
    dropped,      \* history: tasks popped by a loop turn that raised before
                  \*          execute_task was called
    loop_errors,  \* history: exceptions run_continuous_cycle caught since the
                  \*          last process_tasks call that returned normally
    in_flight,    \* history: execute_task calls in progress, per agent_id
    invoked,      \* history: phases invoked by the current/last call, per agent_id
    deps,         \* BaseAgent.ai_client / sheets_manager are set (TRUE) or None
                  \* (FALSE), per agent_id
    writes,       \* history: GoogleSheetsManager write calls made by act in the
                  \*          current/last call, per agent_id
    late,         \* history: ids of tasks recorded as added while process_tasks
                  \*          was suspended in execute_task
    users,        \* WhitelistManager.users: list of user dicts
    wall_clock,   \* datetime.now() of the whitelist manager, in minutes
    n_auth,       \* history: authenticate_user calls made
    auth_log      \* history: the last authenticate_user call and the failed
                  \*          attempts counted since the last successful login

hist == <<dropped, loop_errors, in_flight, invoked>>

wl == <<users, wall_clock, n_auth, auth_log>>

aux == <<deps, late, wl>>

orch == <<task_queue, agents, state, memory, frame, pc, sleep_for, clock,
          next_id, calls, n_calls, last_return, trace, updates, skipped,
          dropped, loop_errors, in_flight, invoked, deps, writes, late>>

vars == <<task_queue, agents, state, memory, frame, pc, sleep_for, clock,
          next_id, calls, n_calls, last_return, trace, updates, skipped,
          dropped, loop_errors, in_flight, invoked, deps, writes, late,
          users, wall_clock, n_auth, auth_log>>

-----------------------------------------------------------------------------
(* Bounds of the model *)

MaxTasks == 3
MaxMemTasks == 52

(* Program constants *)

MaxRecentActions == 50
MaxContextWindow == 20
ThinkContextLen == 10
DefaultInterval == 300
RetryDelay == 60

None == [none |-> TRUE]

-----------------------------------------------------------------------------
(* Python str as a sequence of characters *)

UpperChars == <<"A","B","C","D","E","F","G","H","I","J","K","L","M",
                "N","O","P","Q","R","S","T","U","V","W","X","Y","Z">>
LowerChars == <<"a","b","c","d","e","f","g","h","i","j","k","l","m",
                "n","o","p","q","r","s","t","u","v","w","x","y","z">>

char_lower(c) ==
    IF \E i \in 1..26 : UpperChars[i] = c
    THEN LowerChars[CHOOSE i \in 1..26 : UpperChars[i] = c]
    ELSE c

\* str.lower()
str_lower(s) == [i \in 1..Len(s) |-> char_lower(s[i])]

\* `sub in s`
str_contains(sub, s) ==
    \E i \in 1..(Len(s) - Len(sub) + 1) : SubSeq(s, i, i + Len(sub) - 1) = sub

S_analysis == <<"a","n","a","l","y","s","i","s">>
S_brief == <<"b","r","i","e","f">>
S_lead == <<"l","e","a","d">>
S_follow == <<"f","o","l","l","o","w">>

T_business_analysis ==
    <<"b","u","s","i","n","e","s","s","_","a","n","a","l","y","s","i","s">>
T_generate_brief == <<"g","e","n","e","r","a","t","e","_","b","r","i","e","f">>
T_lead_followup == <<"l","e","a","d","_","f","o","l","l","o","w","u","p">>
T_LEAD_ANALYSIS == <<"L","E","A","D","_","A","N","A","L","Y","S","I","S">>
T_Follow_Up == <<"F","o","l","l","o","w","_","U","p">>
T_unknown_xyz == <<"u","n","k","n","o","w","n","_","x","y","z">>
T_empty == <<>>

\* a task.type that is not a str (None): task.type.lower() raises on it
TypeNone == <<"<None>">>
is_str(t) == t # TypeNone

-----------------------------------------------------------------------------
(* AgentRole, AgentState, agent ids *)

BUSINESS_ANALYST == "business_analyst"
LEAD_MANAGER == "lead_manager"

IDLE == "idle"
THINKING == "thinking"
ACTING == "acting"
OBSERVING == "observing"

BA_ID == "business_analyst_001"
LM_ID == "lead_manager_001"
AgentIds == {BA_ID, LM_ID}

\* AgentTask as the callers of add_task build it
\* a task as producers build it: assigned_agent None, status "pending"
AgentTaskWith(id, type, priority, data) ==
    [id |-> id, type |-> type, priority |-> priority, data |-> data,
     assigned_agent |-> None, status |-> "pending"]

\* data = {}
NoData == <<>>

AgentTask(id, type, priority) == AgentTaskWith(id, type, priority, NoData)

\* AgentMemory as BaseAgent.__init__ builds it
AgentMemory(now) ==
    [recent_actions |-> <<>>, learned_patterns |-> <<>>,
     performance_metrics |-> <<>>, context_window |-> <<>>,
     last_updated |-> now]

\* no execute_task call in progress; `at` is the phase a call is awaiting
NoFrame == [task |-> None, context |-> None, thoughts |-> None, result |-> None,
            at |-> "none", memory_at_call |-> None]

NoException == [phase |-> "none", error |-> ""]
NoReturn == [task_id |-> 0, exc |-> NoException, outcome |-> None,
             task_status |-> None, task_assigned_agent |-> None]

-----------------------------------------------------------------------------
(* Python list and dict operations used by the code *)

\* lst[:n] in place of lst[-n:]
list_first(lst, n) ==
    IF Len(lst) <= n THEN lst ELSE SubSeq(lst, 1, n)

\* lst[-n:]
list_last(lst, n) ==
    IF Len(lst) <= n THEN lst ELSE SubSeq(lst, Len(lst) - n + 1, Len(lst))

\* d.get(k, default)
dict_get(d, k, default) == IF k \in DOMAIN d THEN d[k] ELSE default

\* truth value of d.get(k) for a dict-valued entry
dict_get_truthy(d, k) == k \in DOMAIN d /\ DOMAIN d[k] # {}

\* a merge that adds the new value to the old one
dict_update_accumulate(d, m) ==
    [k \in (DOMAIN d) \cup (DOMAIN m) |->
        IF k \in DOMAIN m
        THEN (IF k \in DOMAIN d THEN d[k] + m[k] ELSE m[k])
        ELSE d[k]]

\* d.update(m)
dict_update(d, m) ==
    [k \in (DOMAIN d) \cup (DOMAIN m) |-> IF k \in DOMAIN m THEN m[k] ELSE d[k]]

\* a pop that takes the most urgent task (least priority number) first
pop_index_by_priority(q) ==
    CHOOSE i \in 1..Len(q) :
        \A j \in 1..Len(q) :
            \/ q[i].priority < q[j].priority
            \/ (q[i].priority = q[j].priority /\ i <= j)

\* lst.pop(0): the index removed
pop_index(q) == 1

\* a pop that puts the element back at the tail of the list
list_remove_requeue(q, i) ==
    SubSeq(q, 1, i - 1) \o SubSeq(q, i + 1, Len(q)) \o <<q[i]>>

\* a pop that also discards the element behind the one it returns
list_remove_two(q, i) == SubSeq(q, 1, i - 1) \o SubSeq(q, i + 2, Len(q))

\* lst.pop(i): what is left of the list
list_remove(q, i) == SubSeq(q, 1, i - 1) \o SubSeq(q, i + 1, Len(q))

-----------------------------------------------------------------------------
(* What a phase (think, act, observe) or a call gives back: a value or an   *)
(* exception carrying a message                                              *)

Ok(v) == [raised |-> FALSE, value |-> v]
Raise(msg) == [raised |-> TRUE, value |-> [error |-> msg]]

\* the values the abstract phases may produce (role-specific shapes)
Thoughts == {[insights |-> "i"]}
ActResults == {[success |-> TRUE], [success |-> FALSE]}
Learnings == {[metrics |-> [success_rate |-> 1], patterns |-> [follow_up_frequency |-> 1]]}

ThinkOutcomes == {Ok(t) : t \in Thoughts} \cup {Raise("ThinkError")}
ActOutcomes == {Ok(r) : r \in ActResults} \cup {Raise("ActError")}
ObserveOutcomes == {Ok(l) : l \in Learnings} \cup {Raise("ObserveError")}

\* task types and priorities the producers of Spec use
TaskTypes == {T_business_analysis, T_lead_followup}
Priorities == {1, 2, 3}

-----------------------------------------------------------------------------
(* AgentOrchestrator._select_agent_for_task *)

NO_AGENT == "no_agent"

\* the two rules tried in the other order
_select_agent_for_task_lead_first(task) ==
    LET task_type == str_lower(task.type) IN
    IF str_contains(S_lead, task_type) \/ str_contains(S_follow, task_type)
    THEN LEAD_MANAGER
    ELSE IF str_contains(S_analysis, task_type) \/ str_contains(S_brief, task_type)
    THEN BUSINESS_ANALYST
    ELSE BUSINESS_ANALYST

\* no default: an unmatched type selects no agent
_select_agent_for_task_no_default(task) ==
    LET task_type == str_lower(task.type) IN
    IF str_contains(S_analysis, task_type) \/ str_contains(S_brief, task_type)
    THEN BUSINESS_ANALYST
    ELSE IF str_contains(S_lead, task_type) \/ str_contains(S_follow, task_type)
    THEN LEAD_MANAGER
    ELSE NO_AGENT

_select_agent_for_task(task) ==
    LET task_type == str_lower(task.type) IN
    IF str_contains(S_analysis, task_type) \/ str_contains(S_brief, task_type)
    THEN BUSINESS_ANALYST
    ELSE IF str_contains(S_lead, task_type) \/ str_contains(S_follow, task_type)
    THEN LEAD_MANAGER
    ELSE BUSINESS_ANALYST

-----------------------------------------------------------------------------
(* BaseAgent._update_memory: the new AgentMemory.  datetime.now() is read   *)
(* three times, at now, now + 1 and now + 2.                                 *)

recent_actions_entry(task, thoughts, result, learning, now) ==
    [task_id |-> task.id, thoughts |-> thoughts, result |-> result,
     learning |-> learning, timestamp |-> now]

\* an update that appends to context_window and never cuts it
_update_memory_uncut_context(mem, task, thoughts, result, learning, now) ==
    LET ra1 == Append(mem.recent_actions,
                      recent_actions_entry(task, thoughts, result, learning, now))
        ra2 == IF Len(ra1) > MaxRecentActions
               THEN list_last(ra1, MaxRecentActions) ELSE ra1
        lp == IF dict_get_truthy(learning, "patterns")
              THEN dict_update(mem.learned_patterns, learning.patterns)
              ELSE mem.learned_patterns
        pm == IF dict_get_truthy(learning, "metrics")
              THEN dict_update(mem.performance_metrics, learning.metrics)
              ELSE mem.performance_metrics
        cw1 == Append(mem.context_window,
                      [task |-> task, result |-> result, timestamp |-> now + 1])
    IN [recent_actions |-> ra2, learned_patterns |-> lp,
        performance_metrics |-> pm, context_window |-> cw1,
        last_updated |-> now + 2]

_update_memory(mem, task, thoughts, result, learning, now) ==
    LET ra1 == Append(mem.recent_actions,
                      recent_actions_entry(task, thoughts, result, learning, now))
        ra2 == IF Len(ra1) > MaxRecentActions
               THEN list_last(ra1, MaxRecentActions) ELSE ra1
        lp == IF dict_get_truthy(learning, "patterns")
              THEN dict_update(mem.learned_patterns, learning.patterns)
              ELSE mem.learned_patterns
        pm == IF dict_get_truthy(learning, "metrics")
              THEN dict_update(mem.performance_metrics, learning.metrics)
              ELSE mem.performance_metrics
        cw1 == Append(mem.context_window,
                      [task |-> task, result |-> result, timestamp |-> now + 1])
        cw2 == IF Len(cw1) > MaxContextWindow
               THEN list_last(cw1, MaxContextWindow) ELSE cw1
    IN [recent_actions |-> ra2, learned_patterns |-> lp,
        performance_metrics |-> pm, context_window |-> cw2,
        last_updated |-> now + 2]

-----------------------------------------------------------------------------
(* BaseAgent.execute_task: its return values and its exception handler *)

\* the dict execute_task passes to think: asdict copies of the task and of
\* the memory, and context_window[-10:]; here with self.memory itself
think_context_live_memory(task, mem) ==
    [task |-> task, memory |-> mem, memory_is_copy |-> FALSE,
     context |-> IF mem.context_window # <<>>
                 THEN list_last(mem.context_window, ThinkContextLen) ELSE <<>>]

\* the dict execute_task passes to think; asdict(self.memory) is a deep copy
think_context(task, mem) ==
    [task |-> task, memory |-> mem, memory_is_copy |-> TRUE,
     context |-> IF mem.context_window # <<>>
                 THEN list_last(mem.context_window, ThinkContextLen) ELSE <<>>]

\* what a think implementation may do to the memory dict it was given:
\* clear its two lists
scribbled(mem) == [mem EXCEPT !.recent_actions = <<>>, !.context_window = <<>>]

\* one AgentMemory object shared by all agents
memory_owners_shared(a) == AgentIds

\* the agents whose self.memory is the object agent a writes: __init__ gives
\* every agent an AgentMemory of its own
memory_owners(a) == {a}

\* the phase execute_task invokes after phase p returned, act skipped
phase_after_skipping_act(p) ==
    CASE p = "think" -> "observe"
      [] p = "act" -> "observe"
      [] p = "observe" -> "done"

\* the phase execute_task invokes after phase p returned
phase_after(p) ==
    CASE p = "think" -> "act"
      [] p = "act" -> "observe"
      [] p = "observe" -> "done"

\* a result dict whose success also asks that observe reported no error
execute_task_result_needs_learning(task, agent_id, thoughts, result, learning) ==
    Ok([task_id |-> task.id, agent_id |-> agent_id, thoughts |-> thoughts,
        actions |-> result, learning |-> learning,
        success |-> dict_get(result, "success", FALSE)
                    /\ "error" \notin DOMAIN learning])

\* the dict returned at the end of the try block
execute_task_result(task, agent_id, thoughts, result, learning) ==
    Ok([task_id |-> task.id, agent_id |-> agent_id, thoughts |-> thoughts,
        actions |-> result, learning |-> learning,
        success |-> dict_get(result, "success", FALSE)])

\* the values execute_task assigns to self.state: before each phase, and
\* after _update_memory ("done"); with OBSERVING never assigned
phase_state_without_observing(phase) ==
    CASE phase = "think" -> THINKING
      [] phase = "act" -> ACTING
      [] phase = "observe" -> ACTING
      [] phase = "done" -> IDLE

\* the values execute_task assigns to self.state: before each phase, and
\* after _update_memory ("done")
phase_state(phase) ==
    CASE phase = "think" -> THINKING
      [] phase = "act" -> ACTING
      [] phase = "observe" -> OBSERVING
      [] phase = "done" -> IDLE

\* a handler that leaves self.state as it is
except_state_unchanged(s) == s

\* except Exception: the value self.state is given
except_state(s) == IDLE

\* a handler that lets the exception go on to the caller
except_reraise(task, agent_id, msg) == Raise(msg)

\* except Exception: what the handler gives back for exception message msg
except_return(task, agent_id, msg) == Ok([error |-> msg, success |-> FALSE])

\* a handler that gives up at the third exception in a row and waits longer
\* each time
cycle_except_backoff(n) ==
    [pc |-> IF n >= 3 THEN "stopped" ELSE "sleep", sleep_for |-> RetryDelay * n]

\* no handler: the exception ends run_continuous_cycle
cycle_except_exit(n) == [pc |-> "stopped", sleep_for |-> 0]

\* run_continuous_cycle, except Exception, at the n-th exception in a row:
\* log it and sleep 60 seconds inside the `while True` loop
cycle_except(n) == [pc |-> "sleep", sleep_for |-> RetryDelay]

\* a loop that goes on only while more than one task is queued
while_more_than_one(q) == Len(q) > 1

\* process_tasks, `while self.task_queue`: the list is not empty
while_task_queue(q) == q # <<>>

\* a loop that gives up the pass when a task's outcome is a failure
after_call_abort_on_failure(o) ==
    IF o.raised \/ ~o.value.success THEN "raise" ELSE "process"

\* process_tasks after `await agent.execute_task(task)`: a returned value,
\* whatever its success flag, is logged and the while loop goes on; an
\* exception leaves process_tasks
after_call(o) == IF o.raised THEN "raise" ELSE "process"

\* a loop that starts execute_task and goes on without awaiting its result
drain_ready_without_await(p) == p \in {"process", "await"}

\* where `result = await agent.execute_task(task)` lets process_tasks go on:
\* the loop takes the next task only from its own loop head
drain_ready(p) == p = "process"

-----------------------------------------------------------------------------
(* Initial state: AgentOrchestrator.__init__ has built the two agents (each *)
(* BaseAgent.__init__ reads the clock once) and an empty queue; the        *)
(* continuous cycle has not been started.                                    *)

(* whitelist_manager.py: the user dicts and the password hash *)

MaxFailedAttempts == 5
LockMinutes == 30

UserEmail == "ann@example.com"
UserPassword == "right"

\* asdict(WhitelistUser(...)) as add_user stores it, fields used by
\* authenticate_user
WhitelistUser(email, password_hash) ==
    [email |-> email, password_hash |-> password_hash,
     failed_login_attempts |-> 0, locked_until |-> None,
     last_access |-> None, total_logins |-> 0]

\* hashlib.pbkdf2_hmac('sha256', password, salt, 100000).hex(): a value
\* that is equal for equal password and salt only
pbkdf2_hmac(password, salt) == <<"sha256", password, salt>>

\* hash_password: f"{salt}${hash}"
hash_password(password, salt) == [salt |-> salt, hash_hex |-> pbkdf2_hmac(password, salt)]

\* verify_password: split the stored value and compare the recomputed hash
verify_password(password, password_hash) ==
    pbkdf2_hmac(password, password_hash.salt) = password_hash.hash_hex

\* get_user_by_email: index of the first user with this email, 0 if none
get_user_by_email(us, email) ==
    IF \E i \in 1..Len(us) : us[i].email = email
    THEN CHOOSE i \in 1..Len(us) :
             us[i].email = email /\ \A j \in 1..(i - 1) : us[j].email # email
    ELSE 0

\* a lock that is taken only after the sixth failed attempt
should_lock_late(n) == n > MaxFailedAttempts

\* authenticate_user: `if user["failed_login_attempts"] >= 5`
should_lock(n) == n >= MaxFailedAttempts

\* datetime.isoformat(): the string stored for the time t
isoformat(t) == [iso |-> t]

\* datetime.fromisoformat(): the time a stored string stands for
fromisoformat(x) == x.iso

\* authenticate_user: the account is locked at time t
is_locked(user, t) ==
    user.locked_until # None /\ t < fromisoformat(user.locked_until)

\* no authenticate_user call made yet
NoAuth == [email |-> "", password |-> "", result |-> None, was_locked |-> FALSE,
           streak |-> 0]

\* BaseAgent._initialize_dependencies: the step that raised, if any.  The
\* client is fetched first, the sheets manager second; an exception is
\* logged and leaves what was not yet assigned at None.
DepFailures == {"none", "ai_client", "sheets_manager"}

_initialize_dependencies(failed) ==
    CASE failed = "none" -> [ai_client |-> TRUE, sheets_manager |-> TRUE]
      [] failed = "ai_client" -> [ai_client |-> FALSE, sheets_manager |-> FALSE]
      [] failed = "sheets_manager" -> [ai_client |-> TRUE, sheets_manager |-> FALSE]

InitWith(d) ==
    /\ task_queue = <<>>
    /\ agents = [r \in {BUSINESS_ANALYST, LEAD_MANAGER} |->
                    IF r = BUSINESS_ANALYST THEN BA_ID ELSE LM_ID]
    /\ state = [a \in AgentIds |-> IDLE]
    /\ memory = [a \in AgentIds |-> AgentMemory(IF a = BA_ID THEN 0 ELSE 1)]
    /\ frame = [a \in AgentIds |-> NoFrame]
    /\ pc = "init"
    /\ sleep_for = 0
    /\ clock = 2
    /\ next_id = 1
    /\ calls = <<>>
    /\ n_calls = [a \in AgentIds |-> 0]
    /\ last_return = [a \in AgentIds |-> NoReturn]
    /\ trace = [a \in AgentIds |-> <<IDLE>>]
    /\ updates = [a \in AgentIds |-> <<>>]
    /\ skipped = <<>>
    /\ dropped = <<>>
    /\ loop_errors = 0
    /\ in_flight = [a \in AgentIds |-> 0]
    /\ invoked = [a \in AgentIds |-> <<>>]
    /\ deps = d
    /\ writes = [a \in AgentIds |-> <<>>]
    /\ late = {}
    /\ users = <<WhitelistUser(UserEmail, hash_password(UserPassword, "salt"))>>
    /\ wall_clock = 0
    /\ n_auth = 0
    /\ auth_log = NoAuth

\* both agents got their language-model client and their sheets manager
Init == InitWith([a \in AgentIds |-> _initialize_dependencies("none")])

\* each agent's _initialize_dependencies succeeded or failed at either step
InitAnyDeps ==
    \E d \in [AgentIds -> {_initialize_dependencies(f) : f \in DepFailures}] :
        InitWith(d)

-----------------------------------------------------------------------------
(* AgentOrchestrator.add_task, called by a producer with a fresh task *)

add_task_data(type, priority, data, max) ==
    /\ next_id <= max
    /\ task_queue' = Append(task_queue, AgentTaskWith(next_id, type, priority, data))
    /\ next_id' = next_id + 1
    /\ UNCHANGED <<agents, state, memory, frame, pc, sleep_for, clock,
                   calls, n_calls, last_return, trace, updates, skipped, hist,
                   deps, writes, wl>>

add_task_with(type, priority, data, max) ==
    /\ add_task_data(type, priority, data, max)
    /\ UNCHANGED late

add_task(type, priority, max) == add_task_with(type, priority, NoData, max)

(* add_task called while process_tasks is suspended in execute_task *)

add_task_late(type, priority, max) ==
    /\ pc = "await"
    /\ add_task_data(type, priority, NoData, max)
    /\ late' = late \cup {next_id}

(* AgentOrchestrator.run_continuous_cycle is started: it enters the loop   *)
(* and calls process_tasks                                                   *)

run_continuous_cycle ==
    /\ pc = "init"
    /\ pc' = "process"
    /\ UNCHANGED <<task_queue, agents, state, memory, frame, sleep_for, clock,
                   next_id, calls, n_calls, last_return, trace, updates, skipped,
                   hist, aux, writes>>

(* An exception leaves process_tasks: run_continuous_cycle catches it, logs *)
(* it and sleeps                                                             *)

cycle_catches ==
    /\ pc' = cycle_except(loop_errors + 1).pc
    /\ sleep_for' = cycle_except(loop_errors + 1).sleep_for
    /\ loop_errors' = loop_errors + 1

(* process_tasks, one turn of `while self.task_queue`: pop(0), select the   *)
(* agent (task.type.lower() raises when the type is no str), and call its   *)
(* execute_task, which sets THINKING and awaits think                        *)

process_tasks_next ==
    /\ drain_ready(pc)
    /\ while_task_queue(task_queue)
    /\ LET i == pop_index(task_queue)
           task == task_queue[i]
       IN /\ task_queue' = list_remove(task_queue, i)
          /\ IF ~is_str(task.type)
             THEN /\ cycle_catches
                  /\ dropped' = Append(dropped, task.id)
                  /\ UNCHANGED <<state, frame, trace, calls, n_calls, skipped,
                                 in_flight, invoked, writes>>
             ELSE LET role == _select_agent_for_task(task) IN
                  IF role # NO_AGENT
                  THEN LET a == agents[role] IN
                       /\ state' = [state EXCEPT ![a] = phase_state("think")]
                       /\ frame' = [frame EXCEPT ![a] =
                                       [task |-> task,
                                        context |-> think_context(task, memory[a]),
                                        thoughts |-> None, result |-> None,
                                        at |-> "think",
                                        memory_at_call |-> memory[a]]]
                       /\ trace' = [trace EXCEPT ![a] =
                                       <<state[a], phase_state("think")>>]
                       /\ calls' = Append(calls, task.id)
                       /\ n_calls' = [n_calls EXCEPT ![a] = @ + 1]
                       /\ in_flight' = [in_flight EXCEPT ![a] = @ + 1]
                       /\ invoked' = [invoked EXCEPT ![a] = <<"think">>]
                       /\ writes' = [writes EXCEPT ![a] = <<>>]
                       /\ pc' = "await"
                       /\ UNCHANGED <<skipped, dropped, loop_errors, sleep_for>>
                  ELSE /\ skipped' = Append(skipped, task.id)
                       /\ UNCHANGED <<state, frame, trace, calls, n_calls, pc,
                                      dropped, loop_errors, sleep_for, in_flight,
                                      invoked, writes>>
    /\ UNCHANGED <<agents, memory, clock, next_id, last_return, updates, aux>>

(* process_tasks finds the queue empty and returns; the cycle sleeps for    *)
(* interval_seconds                                                          *)

process_tasks_done ==
    /\ pc = "process"
    /\ ~while_task_queue(task_queue)
    /\ pc' = "sleep"
    /\ sleep_for' = DefaultInterval
    /\ loop_errors' = 0
    /\ UNCHANGED <<task_queue, agents, state, memory, frame, clock, next_id,
                   calls, n_calls, last_return, trace, updates, skipped,
                   dropped, in_flight, invoked, aux, writes>>

(* asyncio.sleep returns: next turn of `while True` *)

sleep_returns ==
    /\ pc = "sleep"
    /\ pc' = "process"
    /\ sleep_for' = 0
    /\ UNCHANGED <<task_queue, agents, state, memory, frame, clock, next_id,
                   calls, n_calls, last_return, trace, updates, skipped, hist,
                   aux, writes>>

(* execute_task of agent a gives o back to process_tasks.  A value lets the *)
(* while loop go on; an exception leaves process_tasks and is caught by      *)
(* run_continuous_cycle, which sleeps 60 seconds.                            *)

execute_task_returns(a, o, exc) ==
    /\ last_return' = [last_return EXCEPT ![a] =
                          [task_id |-> frame[a].task.id, exc |-> exc, outcome |-> o,
                           task_status |-> frame[a].task.status,
                           task_assigned_agent |-> frame[a].task.assigned_agent]]
    /\ frame' = [frame EXCEPT ![a] = NoFrame]
    /\ in_flight' = [in_flight EXCEPT ![a] = @ - 1]
    /\ IF after_call(o) = "raise"
       THEN cycle_catches
       ELSE /\ pc' = "process"
            /\ sleep_for' = 0
            /\ UNCHANGED loop_errors

(* execute_task, except Exception as e *)

execute_task_except(a, e, phase) ==
    /\ state' = [state EXCEPT ![a] = except_state(state[a])]
    /\ trace' = [trace EXCEPT ![a] = Append(trace[a], except_state(state[a]))]
    /\ execute_task_returns(a, except_return(frame[a].task, a, e.value.error),
                            [phase |-> phase, error |-> e.value.error])

(* think, while it runs, changes the memory dict it was given *)

think_scribbles(a) ==
    /\ frame[a].at = "think"
    /\ frame[a].context.memory = memory[a]
    /\ frame[a].context.memory # scribbled(memory[a])
    /\ frame' = [frame EXCEPT ![a].context.memory = scribbled(@)]
    /\ memory' = IF frame[a].context.memory_is_copy
                 THEN memory
                 ELSE [memory EXCEPT ![a] = scribbled(@)]
    /\ UNCHANGED <<task_queue, agents, state, pc, sleep_for, clock, next_id,
                   calls, n_calls, last_return, trace, updates, skipped, hist,
                   aux, writes>>

(* execute_task: think returns o (or raises) *)

think_returns(a, o) ==
    /\ frame[a].at = "think"
    /\ IF o.raised
       THEN /\ execute_task_except(a, o, "think")
            /\ UNCHANGED invoked
       ELSE LET nxt == phase_after("think") IN
            /\ state' = [state EXCEPT ![a] = phase_state(nxt)]
            /\ trace' = [trace EXCEPT ![a] = Append(trace[a], phase_state(nxt))]
            /\ frame' = [frame EXCEPT ![a].thoughts = o.value, ![a].at = nxt]
            /\ invoked' = [invoked EXCEPT ![a] = Append(@, nxt)]
            /\ UNCHANGED <<pc, sleep_for, last_return, loop_errors, in_flight>>
    /\ UNCHANGED <<task_queue, agents, memory, clock, next_id, calls, n_calls,
                   updates, skipped, dropped, aux, writes>>

(* execute_task: act, having made the sheets write calls w, returns o (or   *)
(* raises)                                                                   *)

act_step(a, o, w) ==
    /\ frame[a].at = "act"
    /\ IF o.raised
       THEN /\ execute_task_except(a, o, "act")
            /\ UNCHANGED invoked
       ELSE LET nxt == phase_after("act") IN
            /\ state' = [state EXCEPT ![a] = phase_state(nxt)]
            /\ trace' = [trace EXCEPT ![a] = Append(trace[a], phase_state(nxt))]
            /\ frame' = [frame EXCEPT ![a].result = o.value, ![a].at = nxt]
            /\ invoked' = [invoked EXCEPT ![a] = Append(@, nxt)]
            /\ UNCHANGED <<pc, sleep_for, last_return, loop_errors, in_flight>>
    /\ writes' = [writes EXCEPT ![a] = @ \o w]
    /\ UNCHANGED <<task_queue, agents, memory, clock, next_id, calls, n_calls,
                   updates, skipped, dropped, aux>>

(* execute_task: act returns o (or raises) *)

act_returns(a, o) == act_step(a, o, <<>>)

(* execute_task: observe returns o (or raises); on a value the memory is    *)
(* updated, the state set to IDLE and the result dict returned               *)

observe_returns(a, o) ==
    /\ frame[a].at = "observe"
    /\ IF o.raised
       THEN /\ execute_task_except(a, o, "observe")
            /\ UNCHANGED <<memory, clock, updates>>
       ELSE LET f == frame[a] IN
            /\ memory' = [b \in AgentIds |->
                   IF b \in memory_owners(a)
                   THEN _update_memory(memory[a], f.task, f.thoughts, f.result,
                                       o.value, clock)
                   ELSE memory[b]]
            /\ updates' = [updates EXCEPT ![a] =
                   Append(updates[a],
                          recent_actions_entry(f.task, f.thoughts, f.result,
                                               o.value, clock))]
            /\ clock' = clock + 3
            /\ state' = [state EXCEPT ![a] = phase_state("done")]
            /\ trace' = [trace EXCEPT ![a] = Append(trace[a], phase_state("done"))]
            /\ execute_task_returns(a,
                   execute_task_result(f.task, a, f.thoughts, f.result, o.value),
                   NoException)
    /\ UNCHANGED <<task_queue, agents, next_id, calls, n_calls, skipped, dropped,
                   invoked, aux, writes>>

-----------------------------------------------------------------------------
(* The orchestrator with producers, any phase free to return or raise *)

Next ==
    \/ \E t \in TaskTypes, p \in Priorities : add_task(t, p, MaxTasks)
    \/ run_continuous_cycle
    \/ process_tasks_next
    \/ process_tasks_done
    \/ sleep_returns
    \/ \E a \in AgentIds, o \in ThinkOutcomes : think_returns(a, o)
    \/ \E a \in AgentIds, o \in ActOutcomes : act_returns(a, o)
    \/ \E a \in AgentIds, o \in ObserveOutcomes : observe_returns(a, o)

Spec == Init /\ [][Next]_vars

(* The orchestrator fed every kind of task type, for the routing rules *)

MaxRouteTasks == 2

RouteTypes == {T_business_analysis, T_generate_brief, T_lead_followup,
               T_LEAD_ANALYSIS, T_Follow_Up, T_unknown_xyz, T_empty}

NextRouting ==
    \/ \E t \in RouteTypes : add_task(t, 1, MaxRouteTasks)
    \/ run_continuous_cycle
    \/ process_tasks_next
    \/ process_tasks_done
    \/ sleep_returns
    \/ \E a \in AgentIds, o \in ThinkOutcomes : think_returns(a, o)
    \/ \E a \in AgentIds, o \in ActOutcomes : act_returns(a, o)
    \/ \E a \in AgentIds, o \in ObserveOutcomes : observe_returns(a, o)

SpecRouting == Init /\ [][NextRouting]_vars

(* The orchestrator run long enough to fill the bounded logs of one agent's *)
(* memory: tasks of one type, every phase returning                          *)

NextMem ==
    \/ add_task(T_business_analysis, 1, MaxMemTasks)
    \/ run_continuous_cycle
    \/ process_tasks_next
    \/ process_tasks_done
    \/ sleep_returns
    \/ \E a \in AgentIds, t \in Thoughts : think_returns(a, Ok(t))
    \/ \E a \in AgentIds : act_returns(a, Ok([success |-> TRUE]))
    \/ \E a \in AgentIds, l \in Learnings : observe_returns(a, Ok(l))

SpecMem == Init /\ [][NextMem]_vars

(* The orchestrator run with observe phases that return learning values    *)
(* with overlapping, empty and missing patterns / metrics maps             *)

MaxMergeTasks == 4

MergeLearnings ==
    {[patterns |-> [x |-> 1], metrics |-> [m |-> 1]],
     [patterns |-> [x |-> 2, y |-> 3], metrics |-> [m |-> 2, n |-> 3]],
     [patterns |-> <<>>, metrics |-> <<>>],
     [error |-> "ObserveFailed"]}

NextMerge ==
    \/ add_task(T_business_analysis, 1, MaxMergeTasks)
    \/ run_continuous_cycle
    \/ process_tasks_next
    \/ process_tasks_done
    \/ sleep_returns
    \/ \E a \in AgentIds, t \in Thoughts : think_returns(a, Ok(t))
    \/ \E a \in AgentIds : act_returns(a, Ok([success |-> TRUE]))
    \/ \E a \in AgentIds, l \in MergeLearnings : observe_returns(a, Ok(l))

SpecMerge == Init /\ [][NextMerge]_vars

-----------------------------------------------------------------------------
(* The continuous cycle with producers that may submit a task whose type   *)
(* is no str, so that a drain pass can raise into run_continuous_cycle       *)

MaxLoopTasks == 3

LoopTypes == {T_business_analysis, TypeNone}

LoopThinkOutcomes == {Ok(t) : t \in Thoughts} \cup {Raise("ThinkError")}

NextLoop ==
    \/ \E type \in LoopTypes : add_task(type, 1, MaxLoopTasks)
    \/ run_continuous_cycle
    \/ process_tasks_next
    \/ process_tasks_done
    \/ sleep_returns
    \/ \E a \in AgentIds, o \in LoopThinkOutcomes : think_returns(a, o)
    \/ \E a \in AgentIds : act_returns(a, Ok([success |-> TRUE]))
    \/ \E a \in AgentIds, o \in {Ok(l) : l \in Learnings} : observe_returns(a, o)

SpecLoop == Init /\ [][NextLoop]_vars

(* the event loop runs the cycle whenever it is ready, asyncio.sleep ends,  *)
(* and an awaited phase comes back                                           *)
FairSpecLoop ==
    /\ SpecLoop
    /\ WF_vars(run_continuous_cycle)
    /\ WF_vars(process_tasks_next)
    /\ WF_vars(process_tasks_done)
    /\ WF_vars(sleep_returns)
    /\ WF_vars(\E a \in AgentIds, o \in LoopThinkOutcomes : think_returns(a, o))
    /\ WF_vars(\E a \in AgentIds : act_returns(a, Ok([success |-> TRUE])))
    /\ WF_vars(\E a \in AgentIds, o \in {Ok(l) : l \in Learnings} :
                   observe_returns(a, o))

-----------------------------------------------------------------------------
(* One agent fed enough tasks to fill more than ten context entries, with   *)
(* a think that may write to the memory dict it was given                    *)

MaxThinkTasks == 12

NextThink ==
    \/ add_task(T_business_analysis, 1, MaxThinkTasks)
    \/ run_continuous_cycle
    \/ process_tasks_next
    \/ process_tasks_done
    \/ sleep_returns
    \/ \E a \in AgentIds : think_scribbles(a)
    \/ \E a \in AgentIds, o \in {Ok(t) : t \in Thoughts} : think_returns(a, o)
    \/ \E a \in AgentIds : act_returns(a, Ok([success |-> TRUE]))
    \/ \E a \in AgentIds, o \in {Ok(l) : l \in Learnings} : observe_returns(a, o)

SpecThink == Init /\ [][NextThink]_vars

-----------------------------------------------------------------------------
(* BusinessAnalystAgent and LeadManagerAgent: think, act and observe as     *)
(* functions of their argument, of the agent's dependencies and of what the  *)
(* language model or the sheets call gives back                              *)

S_urgent == <<"u","r","g","e","n","t">>
S_new == <<"n","e","w">>
S_contacted == <<"c","o","n","t","a","c","t","e","d">>
S_proposal == <<"p","r","o","p","o","s","a","l">>
S_meeting == <<"m","e","e","t","i","n","g">>

\* a row of get_pending_follow_ups
PendingLead == [Chat_Title |-> "Acme", Contact_Name |-> "Ann",
                Status |-> <<"N","e","w">>,
                Notes |-> <<"U","r","g","e","n","t">>]

\* `if 'error' in thoughts`, with the test left out
thoughts_failed_ignored(thoughts) == FALSE

\* `if 'error' in thoughts`, first statement of both act methods
thoughts_failed(thoughts) == "error" \in DOMAIN thoughts

\* BusinessAnalystAgent.think; llm is what chat_completions_create and
\* json.loads give
ba_think(context, dep, llm) ==
    IF dict_get(context.task.data, "messages", <<>>) = <<>>
    THEN [insights |-> <<>>, recommendations |-> <<>>, confidence |-> 0]
    ELSE IF ~dep.ai_client THEN [error |-> "AttributeError"]
    ELSE IF llm.raised THEN [error |-> llm.value.error]
    ELSE llm.value

\* the BusinessBrief built by BusinessAnalystAgent.act; confidence is kept
\* in tenths
BusinessBrief(thoughts) ==
    [chat_title |-> dict_get(thoughts, "chat_title", "Unknown"),
     chat_type |-> dict_get(thoughts, "chat_type", "Unknown"),
     executive_brief |-> dict_get(thoughts, "executive_summary", ""),
     key_insights |-> dict_get(thoughts, "insights", <<>>),
     conversion_opportunities |-> dict_get(thoughts, "opportunities", <<>>),
     actionable_recommendations |-> dict_get(thoughts, "recommendations", <<>>),
     next_steps |-> dict_get(thoughts, "priorities", <<>>),
     priority |-> IF dict_get(thoughts, "confidence", 0) > 7
                  THEN "High" ELSE "Medium",
     status |-> "Active"]

\* BusinessAnalystAgent.act: its result and the sheets write calls it made;
\* wr is what add_business_brief gives
ba_act(thoughts, dep, wr) ==
    IF thoughts_failed(thoughts)
    THEN [result |-> [success |-> FALSE, error |-> thoughts.error],
          calls |-> <<>>]
    ELSE IF ~dep.sheets_manager
    THEN [result |-> [success |-> FALSE, error |-> "AttributeError"],
          calls |-> <<>>]
    ELSE IF wr.raised
    THEN [result |-> [success |-> FALSE, error |-> wr.value.error],
          calls |-> <<"add_business_brief">>]
    ELSE [result |-> [success |-> wr.value,
                      brief_created |-> BusinessBrief(thoughts),
                      actions_taken |-> <<"business_brief_created",
                                          "sheets_updated">>],
          calls |-> <<"add_business_brief">>]

\* BusinessAnalystAgent.observe
ba_observe(result, now) ==
    LET success == dict_get(result, "success", FALSE) IN
    [metrics |-> [briefs_created |-> IF success THEN 1 ELSE 0,
                  success_rate |-> IF success THEN 1 ELSE 0,
                  last_action |-> now],
     patterns |-> [high_priority_indicators |-> <<"urgent", "deadline", "opportunity">>,
                   conversion_triggers |-> <<"interested", "proposal", "meeting">>,
                   risk_indicators |-> <<"concern", "issue", "problem">>],
     learning |-> IF success THEN "Business analysis completed successfully"
                  ELSE "Analysis failed"]

\* LeadManagerAgent._determine_follow_up_action
_determine_follow_up_action(lead) ==
    LET status == str_lower(dict_get(lead, "Status", <<>>))
        notes == str_lower(dict_get(lead, "Notes", <<>>))
    IN IF str_contains(S_new, status) THEN "Initial outreach"
       ELSE IF str_contains(S_contacted, status) THEN "Follow-up call"
       ELSE IF str_contains(S_proposal, notes) THEN "Proposal follow-up"
       ELSE IF str_contains(S_meeting, notes) THEN "Meeting scheduling"
       ELSE "General follow-up"

lead_analysis(lead) ==
    [chat_title |-> dict_get(lead, "Chat_Title", ""),
     contact_name |-> dict_get(lead, "Contact_Name", ""),
     status |-> dict_get(lead, "Status", <<>>),
     priority |-> IF str_contains(S_urgent, str_lower(dict_get(lead, "Notes", <<>>)))
                  THEN "High" ELSE "Medium",
     recommended_action |-> _determine_follow_up_action(lead)]

\* LeadManagerAgent.think; rd is what get_pending_follow_ups gives
lm_think(context, dep, rd) ==
    IF ~dep.sheets_manager THEN [error |-> "AttributeError"]
    ELSE IF rd.raised THEN [error |-> rd.value.error]
    ELSE IF rd.value = <<>>
    THEN [leads_to_follow_up |-> <<>>, recommendations |-> <<>>]
    ELSE LET analysis == [i \in 1..Len(rd.value) |-> lead_analysis(rd.value[i])]
         IN [leads_to_follow_up |-> analysis,
             total_pending |-> Len(rd.value),
             high_priority_count |->
                 Cardinality({i \in 1..Len(analysis) : analysis[i].priority = "High"})]

\* LeadManagerAgent.act: its result and the sheets write calls it made; wr
\* is what every update_lead_status call gives
lm_act(thoughts, dep, wr) ==
    LET leads == dict_get(thoughts, "leads_to_follow_up", <<>>) IN
    IF thoughts_failed(thoughts)
    THEN [result |-> [success |-> FALSE, error |-> thoughts.error],
          calls |-> <<>>]
    ELSE IF leads = <<>>
    THEN [result |-> [success |-> TRUE, leads_processed |-> 0,
                      actions_taken |-> <<>>],
          calls |-> <<>>]
    ELSE IF ~dep.sheets_manager
    THEN [result |-> [success |-> FALSE, error |-> "AttributeError"],
          calls |-> <<>>]
    ELSE IF wr.raised
    THEN [result |-> [success |-> FALSE, error |-> wr.value.error],
          calls |-> <<"update_lead_status">>]
    ELSE [result |-> [success |-> TRUE,
                      leads_processed |-> IF wr.value THEN Len(leads) ELSE 0,
                      actions_taken |-> IF wr.value
                                        THEN [i \in 1..Len(leads) |->
                                                 leads[i].contact_name]
                                        ELSE <<>>],
          calls |-> [i \in 1..Len(leads) |-> "update_lead_status"]]

\* LeadManagerAgent.observe
lm_observe(result, now) ==
    LET success == dict_get(result, "success", FALSE)
        leads_processed == dict_get(result, "leads_processed", 0)
    IN [metrics |-> [leads_processed |-> leads_processed,
                     success_rate |-> IF success THEN 1 ELSE 0,
                     last_follow_up_batch |-> now],
        patterns |-> [follow_up_frequency |-> "daily",
                      high_priority_threshold |-> 7,
                      auto_scheduling_enabled |-> TRUE],
        learning |-> IF success THEN "Processed leads successfully"
                     ELSE "Lead processing failed"]

LlmOutcomes == {Ok([insights |-> <<"i">>, confidence |-> 9]), Raise("LLMError")}
ReadOutcomes == {Ok(<<>>), Ok(<<PendingLead>>), Raise("SheetsReadError")}
WriteOutcomes == {Ok(TRUE), Ok(FALSE), Raise("SheetsWriteError")}

(* the phases of the two concrete agents as steps of execute_task *)

think_concrete(a, llm, rd) ==
    /\ frame[a].at = "think"
    /\ think_returns(a, Ok(IF a = BA_ID
                           THEN ba_think(frame[a].context, deps[a], llm)
                           ELSE lm_think(frame[a].context, deps[a], rd)))

act_concrete(a, wr) ==
    /\ frame[a].at = "act"
    /\ LET r == IF a = BA_ID
                THEN ba_act(frame[a].thoughts, deps[a], wr)
                ELSE lm_act(frame[a].thoughts, deps[a], wr)
       IN act_step(a, Ok(r.result), r.calls)

observe_concrete(a) ==
    /\ frame[a].at = "observe"
    /\ observe_returns(a, Ok(IF a = BA_ID
                             THEN ba_observe(frame[a].result, clock)
                             ELSE lm_observe(frame[a].result, clock)))

(* The orchestrator with its two concrete agents, built with or without     *)
(* their dependencies                                                        *)

MaxConcreteTasks == 2

TaskData == {NoData, [messages |-> <<"We need to discuss the proposal">>]}

NextConcrete ==
    \/ \E type \in TaskTypes, data \in TaskData :
          add_task_with(type, 1, data, MaxConcreteTasks)
    \/ run_continuous_cycle
    \/ process_tasks_next
    \/ process_tasks_done
    \/ sleep_returns
    \/ \E a \in AgentIds, llm \in LlmOutcomes, rd \in ReadOutcomes :
          think_concrete(a, llm, rd)
    \/ \E a \in AgentIds, wr \in WriteOutcomes : act_concrete(a, wr)
    \/ \E a \in AgentIds : observe_concrete(a)

SpecConcrete == InitAnyDeps /\ [][NextConcrete]_vars

-----------------------------------------------------------------------------
(* The continuous cycle with producers whose add_task calls during an       *)
(* awaited execute_task are recorded                                         *)

MaxLateTasks == 3

NextLate ==
    \/ \E type \in LoopTypes : add_task(type, 1, MaxLateTasks)
    \/ \E type \in LoopTypes : add_task_late(type, 1, MaxLateTasks)
    \/ run_continuous_cycle
    \/ process_tasks_next
    \/ process_tasks_done
    \/ sleep_returns
    \/ \E a \in AgentIds, o \in LoopThinkOutcomes : think_returns(a, o)
    \/ \E a \in AgentIds : act_returns(a, Ok([success |-> TRUE]))
    \/ \E a \in AgentIds, o \in {Ok(l) : l \in Learnings} : observe_returns(a, o)

SpecLate == Init /\ [][NextLate]_vars

-----------------------------------------------------------------------------
(* One agent whose act gives results with and without a success flag and    *)
(* whose observe gives a learning or an error dict                           *)

MaxOutcomeTasks == 3

OutcomeActResults == ActResults \cup {[leads_processed |-> 1]}

OutcomeLearnings == Learnings \cup {[error |-> "ObserveFailed"]}

NextOutcome ==
    \/ add_task(T_business_analysis, 1, MaxOutcomeTasks)
    \/ run_continuous_cycle
    \/ process_tasks_next
    \/ process_tasks_done
    \/ sleep_returns
    \/ \E a \in AgentIds, o \in {Ok(t) : t \in Thoughts} : think_returns(a, o)
    \/ \E a \in AgentIds, o \in {Ok(r) : r \in OutcomeActResults} : act_returns(a, o)
    \/ \E a \in AgentIds, o \in {Ok(l) : l \in OutcomeLearnings} : observe_returns(a, o)

SpecOutcome == Init /\ [][NextOutcome]_vars

-----------------------------------------------------------------------------
(* WhitelistManager.authenticate_user, called at any time with any password *)

MaxAuthCalls == 7
MaxWallClock == 60
TickMinutes == 15

Emails == {UserEmail, "nobody@example.com"}
Passwords == {UserPassword, "wrong"}

authenticate_user(email, password) ==
    /\ n_auth < MaxAuthCalls
    /\ n_auth' = n_auth + 1
    /\ LET i == get_user_by_email(users, email) IN
       IF i = 0
       THEN /\ auth_log' = [email |-> email, password |-> password,
                            result |-> None, was_locked |-> FALSE,
                            streak |-> auth_log.streak]
            /\ UNCHANGED users
       ELSE LET user == users[i] IN
            IF is_locked(user, wall_clock)
            THEN /\ auth_log' = [email |-> email, password |-> password,
                                 result |-> None, was_locked |-> TRUE,
                                 streak |-> auth_log.streak]
                 /\ UNCHANGED users
            ELSE IF user.password_hash # None
                    /\ verify_password(password, user.password_hash)
            THEN LET logged_in == [user EXCEPT
                                      !.failed_login_attempts = 0,
                                      !.locked_until = None,
                                      !.last_access = isoformat(wall_clock),
                                      !.total_logins = @ + 1]
                 IN /\ users' = [users EXCEPT ![i] = logged_in]
                    /\ auth_log' = [email |-> email, password |-> password,
                                    result |-> logged_in, was_locked |-> FALSE,
                                    streak |-> 0]
            ELSE LET n == user.failed_login_attempts + 1
                     failed == [user EXCEPT
                                   !.failed_login_attempts = n,
                                   !.locked_until =
                                       IF should_lock(n)
                                       THEN isoformat(wall_clock + LockMinutes)
                                       ELSE @]
                 IN /\ users' = [users EXCEPT ![i] = failed]
                    /\ auth_log' = [email |-> email, password |-> password,
                                    result |-> None, was_locked |-> FALSE,
                                    streak |-> auth_log.streak + 1]
    /\ UNCHANGED <<wall_clock, orch>>

(* time passes *)

tick ==
    /\ wall_clock + TickMinutes <= MaxWallClock
    /\ wall_clock' = wall_clock + TickMinutes
    /\ UNCHANGED <<users, n_auth, auth_log, orch>>

NextWhitelist ==
    \/ \E email \in Emails, password \in Passwords : authenticate_user(email, password)
    \/ tick

SpecWhitelist == Init /\ [][NextWhitelist]_vars

-----------------------------------------------------------------------------
(* Properties *)

CallInProgress(a) == frame[a].at # "none"
HasReturned(a) == last_return[a].task_id # 0

\* C1: tasks are handed to execute_task in exactly the order they were
\* enqueued, whatever their priorities: add_task numbers the tasks in
\* enqueue order, so the i-th call is for task i and the queue holds the
\* tasks not yet handed over, in order.
C1_FifoOrder ==
    /\ \A i \in 1..Len(calls) : calls[i] = i
    /\ \A j \in 1..Len(task_queue) : task_queue[j].id = Len(calls) + j

\* A(priority 3), B(priority 1), C(priority 2) were executed in the order A, B, C
C1_Witness ==
    LET cw == memory[BA_ID].context_window IN
    /\ calls = <<1, 2, 3>>
    /\ Len(cw) = 3
    /\ cw[1].task.id = 1 /\ cw[1].task.priority = 3
    /\ cw[2].task.id = 2 /\ cw[2].task.priority = 1
    /\ cw[3].task.id = 3 /\ cw[3].task.priority = 2

\* C2: at most one task is in flight: at most one agent is in a state other
\* than Idle, at most one execute_task call is in progress, and only while
\* process_tasks awaits it.
C2_OneInFlight ==
    /\ Cardinality({a \in AgentIds : state[a] # IDLE}) <= 1
    /\ Cardinality({a \in AgentIds : CallInProgress(a)}) <= 1
    /\ (\E a \in AgentIds : CallInProgress(a)) => pc = "await"

\* the task after one the business analyst finished is with the lead manager
C2_Witness ==
    /\ CallInProgress(LM_ID)
    /\ state[LM_ID] # IDLE
    /\ HasReturned(BA_ID)
    /\ last_return[BA_ID].task_id + 1 = frame[LM_ID].task.id

\* C3: a cycle whose three phases succeed takes the state through Idle,
\* Thinking, Acting, Observing, Idle; a cycle whose think fails takes it
\* through Idle, Thinking, Idle and returns success = false.
C3_StateSequence ==
    \A a \in AgentIds :
        (HasReturned(a) /\ ~CallInProgress(a)) =>
            /\ last_return[a].exc.phase = "none" =>
                   trace[a] = <<IDLE, THINKING, ACTING, OBSERVING, IDLE>>
            /\ last_return[a].exc.phase = "think" =>
                   /\ trace[a] = <<IDLE, THINKING, IDLE>>
                   /\ ~last_return[a].outcome.raised
                   /\ last_return[a].outcome.value.success = FALSE

\* one agent has finished a successful cycle, the other one whose think failed
C3_Witness ==
    \E a, b \in AgentIds :
        /\ ~CallInProgress(a) /\ ~CallInProgress(b)
        /\ HasReturned(a) /\ last_return[a].exc.phase = "none"
        /\ HasReturned(b) /\ last_return[b].exc.phase = "think"

\* C4: execute_task never raises to its caller: every call returns a value,
\* and when a phase raised the value has success = false and the message of
\* the exception; no exception reaches the handler of run_continuous_cycle.
C4_NeverRaises ==
    /\ \A a \in AgentIds :
        HasReturned(a) =>
            /\ ~last_return[a].outcome.raised
            /\ "success" \in DOMAIN last_return[a].outcome.value
            /\ last_return[a].exc.phase # "none" =>
                   /\ last_return[a].outcome.value.success = FALSE
                   /\ "error" \in DOMAIN last_return[a].outcome.value
                   /\ last_return[a].outcome.value.error = last_return[a].exc.error
    /\ sleep_for # RetryDelay

\* act raised in one agent's last call and observe in the other's
C4_Witness ==
    /\ HasReturned(BA_ID) /\ last_return[BA_ID].exc.phase = "act"
    /\ HasReturned(LM_ID) /\ last_return[LM_ID].exc.phase = "observe"
    /\ last_return[BA_ID].outcome.value.error = "ActError"
    /\ last_return[LM_ID].outcome.value.error = "ObserveError"

\* C5: every failure outcome returned after a phase raised holds the id of
\* the executed task and the id of the executing agent, with success = false
\* and the error.
C5_FailureIdentifiesTaskAndAgent ==
    \A a \in AgentIds :
        (HasReturned(a) /\ last_return[a].exc.phase # "none") =>
            LET v == last_return[a].outcome.value IN
            /\ "task_id" \in DOMAIN v
            /\ v.task_id = last_return[a].task_id
            /\ "agent_id" \in DOMAIN v
            /\ v.agent_id = a
            /\ "success" \in DOMAIN v
            /\ v.success = FALSE
            /\ "error" \in DOMAIN v

\* C6: when a phase raises, the memory is still updated with the attempt:
\* after every call, failed or not, recent_actions and context_window end
\* with an entry for that task, last_updated is later than when the call was
\* made, and as many entries were recorded as calls were made.
C6_MemoryUpdatedOnFailure ==
    \A a \in AgentIds :
        (HasReturned(a) /\ ~CallInProgress(a)) =>
            LET m == memory[a] IN
            /\ Len(updates[a]) = n_calls[a]
            /\ m.recent_actions # <<>>
            /\ m.recent_actions[Len(m.recent_actions)].task_id = last_return[a].task_id
            /\ m.context_window # <<>>
            /\ m.context_window[Len(m.context_window)].task.id = last_return[a].task_id
            /\ m.last_updated = m.recent_actions[Len(m.recent_actions)].timestamp + 2

\* C7: whichever phase raises, the state goes from that phase's state
\* straight back to Idle, and an agent with no execute_task call in progress
\* is Idle.
C7_BackToIdle ==
    \A a \in AgentIds :
        ~CallInProgress(a) =>
            /\ state[a] = IDLE
            /\ (HasReturned(a) /\ last_return[a].exc.phase = "think") =>
                   trace[a] = <<IDLE, THINKING, IDLE>>
            /\ (HasReturned(a) /\ last_return[a].exc.phase = "act") =>
                   trace[a] = <<IDLE, THINKING, ACTING, IDLE>>
            /\ (HasReturned(a) /\ last_return[a].exc.phase = "observe") =>
                   trace[a] = <<IDLE, THINKING, ACTING, OBSERVING, IDLE>>

\* both agents are back after a failure, one in act, one in observe
C7_Witness ==
    \E a, b \in AgentIds :
        /\ ~CallInProgress(a) /\ ~CallInProgress(b)
        /\ HasReturned(a) /\ last_return[a].exc.phase = "observe" /\ state[a] = IDLE
        /\ HasReturned(b) /\ last_return[b].exc.phase = "act" /\ state[b] = IDLE

\* word w occurs in type t, letter case ignored
HasWord(w, t) ==
    \E i \in 0..(Len(t) - Len(w)) :
        \A j \in 1..Len(w) : char_lower(t[i + j]) = w[j]

\* C8: a type containing "analysis" or "brief" (any letter case) is routed
\* to the business analyst; otherwise one containing "lead" or "follow" to
\* the lead manager; "business_analysis", "generate_brief" and
\* "LEAD_ANALYSIS" go to the business analyst, "lead_followup" to the lead
\* manager.
C8_Routing ==
    \A a \in AgentIds :
        CallInProgress(a) =>
            LET t == frame[a].task.type
                first == HasWord(S_analysis, t) \/ HasWord(S_brief, t)
                second == HasWord(S_lead, t) \/ HasWord(S_follow, t)
            IN /\ first => a = BA_ID
               /\ (~first /\ second) => a = LM_ID
               /\ t \in {T_business_analysis, T_generate_brief, T_LEAD_ANALYSIS}
                      => a = BA_ID
               /\ t = T_lead_followup => a = LM_ID

\* "LEAD_ANALYSIS" is with the business analyst after "lead_followup" was
\* with the lead manager
C8_Witness ==
    /\ CallInProgress(BA_ID)
    /\ frame[BA_ID].task.type = T_LEAD_ANALYSIS
    /\ HasReturned(LM_ID)
    /\ n_calls[LM_ID] = 1

\* C9: routing is total: the "No agent available" branch is never taken, and
\* every task enqueued is in the queue or was handed to an agent's
\* execute_task, a type matching no rule and the empty type included.
C9_RoutingTotal ==
    /\ skipped = <<>>
    /\ Len(calls) + Len(task_queue) = next_id - 1
    /\ n_calls[BA_ID] + n_calls[LM_ID] = Len(calls)
    /\ \A a \in AgentIds :
          (CallInProgress(a) /\ frame[a].task.type \in {T_unknown_xyz, T_empty})
              => a = agents[BUSINESS_ANALYST]

\* "unknown_xyz" was executed by the business analyst, which now has ""
C9_Witness ==
    LET cw == memory[BA_ID].context_window IN
    /\ CallInProgress(BA_ID)
    /\ frame[BA_ID].task.type = T_empty
    /\ Len(cw) = 1
    /\ cw[1].task.type = T_unknown_xyz

\* C10: recent_actions never holds more than 50 entries, and holds the
\* last min(n, 50) of the n entries recorded so far, oldest first.
C10_RecentActionsBound ==
    \A a \in AgentIds :
        LET ra == memory[a].recent_actions
            n == Len(updates[a])
            k == IF n < MaxRecentActions THEN n ELSE MaxRecentActions
        IN /\ Len(ra) <= MaxRecentActions
           /\ Len(ra) = k
           /\ \A j \in 1..k : ra[j] = updates[a][n - k + j]

\* more than 50 updates were made on one memory, the oldest entries evicted
C10_Witness ==
    /\ Len(updates[BA_ID]) > MaxRecentActions
    /\ Len(memory[BA_ID].recent_actions) = MaxRecentActions
    /\ memory[BA_ID].recent_actions[1].task_id = Len(updates[BA_ID]) - MaxRecentActions + 1

\* C11: context_window never holds more than 20 entries, and holds the
\* {task, result} pairs of the last min(n, 20) of the n updates made so far,
\* oldest first.
C11_ContextWindowBound ==
    \A a \in AgentIds :
        LET cw == memory[a].context_window
            n == Len(updates[a])
            k == IF n < MaxContextWindow THEN n ELSE MaxContextWindow
        IN /\ Len(cw) <= MaxContextWindow
           /\ Len(cw) = k
           /\ \A j \in 1..k :
                 /\ cw[j].task.id = updates[a][n - k + j].task_id
                 /\ cw[j].result = updates[a][n - k + j].result
                 /\ cw[j].timestamp = updates[a][n - k + j].timestamp + 1

\* more than 20 updates were made on one memory, the oldest entries evicted
C11_Witness ==
    /\ Len(updates[BA_ID]) > MaxContextWindow + 2
    /\ Len(memory[BA_ID].context_window) = MaxContextWindow
    /\ memory[BA_ID].context_window[1].task.id =
           Len(updates[BA_ID]) - MaxContextWindow + 1

\* the updates of agent a whose learning value has map f ("patterns" or
\* "metrics"), and the last of them that has key k in it
UpdatesWith(a, f) ==
    {i \in 1..Len(updates[a]) : f \in DOMAIN updates[a][i].learning}
LastUpdateWith(a, f, k) ==
    CHOOSE i \in UpdatesWith(a, f) :
        /\ k \in DOMAIN updates[a][i].learning[f]
        /\ \A j \in UpdatesWith(a, f) :
               k \in DOMAIN updates[a][j].learning[f] => j <= i
MergedKeys(a, f) ==
    UNION {DOMAIN updates[a][i].learning[f] : i \in UpdatesWith(a, f)}
IsMergeOf(m, a, f) ==
    /\ DOMAIN m = MergedKeys(a, f)
    /\ \A k \in MergedKeys(a, f) :
           m[k] = updates[a][LastUpdateWith(a, f, k)].learning[f][k]

\* C12: merging patterns (and metrics) is key-wise overwrite-or-insert: each
\* key holds the value of the last learning value that had it, no other key
\* exists, a learning value without (or with empty) patterns/metrics changes
\* nothing, and merging a map again changes nothing; {x:1} then {x:2, y:3}
\* gives {x:2, y:3}.
C12_MergeOverwriteOrInsert ==
    \A a \in AgentIds :
        /\ IsMergeOf(memory[a].learned_patterns, a, "patterns")
        /\ IsMergeOf(memory[a].performance_metrics, a, "metrics")
        /\ (/\ Len(updates[a]) = 2
            /\ updates[a][1].learning = [patterns |-> [x |-> 1], metrics |-> [m |-> 1]]
            /\ updates[a][2].learning = [patterns |-> [x |-> 2, y |-> 3],
                                         metrics |-> [m |-> 2, n |-> 3]])
           => /\ memory[a].learned_patterns = [x |-> 2, y |-> 3]
              /\ memory[a].performance_metrics = [m |-> 2, n |-> 3]

\* {x:1}, then {x:2, y:3}, then {x:2, y:3} again, then a learning value
\* without patterns were merged
C12_Witness ==
    /\ Len(updates[BA_ID]) = 4
    /\ updates[BA_ID][1].learning = [patterns |-> [x |-> 1], metrics |-> [m |-> 1]]
    /\ \A i \in {2, 3} :
           updates[BA_ID][i].learning =
               [patterns |-> [x |-> 2, y |-> 3], metrics |-> [m |-> 2, n |-> 3]]
    /\ "patterns" \notin DOMAIN updates[BA_ID][4].learning
    /\ memory[BA_ID].learned_patterns = [x |-> 2, y |-> 3]

Ids(seq) == {seq[i] : i \in 1..Len(seq)}

QueuedStr(id) ==
    \E i \in 1..Len(task_queue) :
        task_queue[i].id = id /\ is_str(task_queue[i].type)

\* C13: when a drain pass raises, the cycle stays alive: it goes to sleep for
\* the fixed 60 seconds, which is not the configured interval, and a task
\* that is in the queue after the failure is handed to execute_task later
C13_CycleSurvivesException ==
    /\ [][loop_errors' > loop_errors =>
            /\ pc' = "sleep"
            /\ sleep_for' = RetryDelay
            /\ sleep_for' # DefaultInterval]_vars
    /\ \A id \in 1..MaxLoopTasks :
          [](loop_errors > 0 /\ QueuedStr(id) => <>(id \in Ids(calls)))

\* a drain pass raised, and a task submitted after it is being executed
C13_Witness ==
    /\ dropped = <<1>>
    /\ calls = <<2>>
    /\ CallInProgress(BA_ID)

\* C14: the cycle never terminates and its recovery delay never changes:
\* after any number of exceptions in a row it sleeps exactly 60 seconds
C14_NoExitFixedDelay ==
    /\ pc \in {"init", "process", "await", "sleep"}
    /\ pc = "sleep" => sleep_for \in {RetryDelay, DefaultInterval}
    /\ loop_errors > 0 /\ pc = "sleep" => sleep_for = RetryDelay

\* the third exception in a row has been caught
C14_Witness ==
    /\ loop_errors = 3
    /\ pc = "sleep"
    /\ sleep_for = RetryDelay


Returns(a) == frame[a].at # "none" /\ frame'[a].at = "none"

FailureOutcome(o) == ~o.raised /\ ~o.value.success

RECURSIVE Count(_, _)
Count(x, seq) ==
    IF seq = <<>> THEN 0
    ELSE (IF Head(seq) = x THEN 1 ELSE 0) + Count(x, Tail(seq))

QueueIds == [i \in 1..Len(task_queue) |-> task_queue[i].id]

Dequeued == calls \o dropped \o skipped

\* C16: a task that was dequeued is not in the queue again, whether its
\* call succeeded, returned a failure outcome or the loop turn raised; the
\* queue grows only by add_task; no task is handed to execute_task twice
C16_NeverRequeued ==
    /\ [](\A id \in 1..MaxLoopTasks :
              /\ Count(id, Dequeued) > 0 => Count(id, QueueIds) = 0
              /\ Count(id, calls) <= 1)
    /\ [][Len(task_queue') > Len(task_queue) =>
              /\ next_id' = next_id + 1
              /\ Len(task_queue') = Len(task_queue) + 1
              /\ task_queue'[Len(task_queue')].id = next_id]_vars

\* task 1 succeeded, task 2 returned a failure outcome, the turn for task 3
\* raised, and the queue is empty
C16_Witness ==
    /\ calls = <<1, 2>>
    /\ dropped = <<3>>
    /\ Len(updates[BA_ID]) = 1
    /\ last_return[BA_ID].task_id = 2
    /\ FailureOutcome(last_return[BA_ID].outcome)
    /\ task_queue = <<>>
    /\ pc = "sleep"

\* C17: whatever the interleaving of add_task with the drain loop, the
\* tasks dequeued so far together with the tasks in the queue are exactly
\* the tasks enqueued so far, each once
C17_NoTaskLostOrDuplicated ==
    \A id \in 1..MaxLoopTasks :
        Count(id, Dequeued) + Count(id, QueueIds) = (IF id < next_id THEN 1 ELSE 0)

\* two tasks are in the queue while the call for task 1 is suspended in act
C17_Witness ==
    /\ pc = "await"
    /\ frame[BA_ID].at = "act"
    /\ frame[BA_ID].task.id = 1
    /\ QueueIds = <<2, 3>>
    /\ calls = <<1>>


\* C18: at most one execute_task call is in progress against an agent, and
\* an agent's memory changes only in the step in which its own call in
\* progress, having got the value of observe, runs _update_memory
C18_SingleWriter ==
    /\ [](\A a \in AgentIds : in_flight[a] <= 1)
    /\ [][\A a \in AgentIds :
             memory'[a] # memory[a] =>
                 /\ in_flight[a] = 1
                 /\ frame[a].at = "observe"
                 /\ Len(updates'[a]) = Len(updates[a]) + 1
                 /\ \A b \in AgentIds \ {a} : memory'[b] = memory[b]]_vars

\* the second call against the business analyst is about to update the
\* memory that the first call updated
C18_Witness ==
    /\ n_calls[BA_ID] = 2
    /\ in_flight[BA_ID] = 1
    /\ frame[BA_ID].at = "observe"
    /\ Len(updates[BA_ID]) = 1
    /\ Len(memory[BA_ID].recent_actions) = 1


PhaseOrder == <<"think", "act", "observe">>

\* C19: the phases invoked by one execute_task call are think, act, observe
\* in that order, each at most once, the one running being the last one
\* invoked; a call that returned without an exception, and so any call that
\* returned a success outcome, invoked all three
C19_PhasesOnceInOrder ==
    \A a \in AgentIds :
        /\ Len(invoked[a]) <= Len(PhaseOrder)
        /\ invoked[a] = SubSeq(PhaseOrder, 1, Len(invoked[a]))
        /\ CallInProgress(a) =>
              /\ invoked[a] # <<>>
              /\ frame[a].at = invoked[a][Len(invoked[a])]
        /\ HasReturned(a) /\ ~CallInProgress(a) =>
              /\ last_return[a].exc = NoException => invoked[a] = PhaseOrder
              /\ last_return[a].outcome.value.success => invoked[a] = PhaseOrder
              /\ last_return[a].exc.phase # "none" =>
                    invoked[a][Len(invoked[a])] = last_return[a].exc.phase

\* a call returned a success outcome after its three phases
C19_Witness ==
    /\ HasReturned(LM_ID)
    /\ ~CallInProgress(LM_ID)
    /\ last_return[LM_ID].outcome.value.success
    /\ invoked[LM_ID] = PhaseOrder
    /\ trace[LM_ID] = <<IDLE, THINKING, ACTING, OBSERVING, IDLE>>


Min(x, y) == IF x < y THEN x ELSE y

\* C20: think is given the task, a copy of the memory and the last
\* min(10, n) of the n context_window entries, oldest first; whatever think
\* writes into that copy, the agent's memory stays what it was when the call
\* began
C20_ThinkGetsSnapshot ==
    \A a \in AgentIds :
        CallInProgress(a) =>
            LET f == frame[a]
                cw == f.memory_at_call.context_window
                n == Len(cw)
                k == Min(ThinkContextLen, n)
            IN /\ f.context.task = f.task
               /\ Len(f.context.context) = k
               /\ \A j \in 1..k : f.context.context[j] = cw[n - k + j]
               /\ f.context.memory \in {f.memory_at_call, scribbled(f.memory_at_call)}
               /\ memory[a] = f.memory_at_call

\* think cleared the lists of the copy it was given, at a call that began
\* with eleven context entries and was given ten of them
C20_Witness ==
    /\ frame[BA_ID].at = "think"
    /\ Len(memory[BA_ID].context_window) = 11
    /\ Len(frame[BA_ID].context.context) = 10
    /\ frame[BA_ID].context.context[1] = memory[BA_ID].context_window[2]
    /\ frame[BA_ID].context.memory.context_window = <<>>
    /\ frame[BA_ID].context.memory # memory[BA_ID]


InPhase(a) == state[a] \in {THINKING, ACTING, OBSERVING}

\* C21: while an agent is THINKING, ACTING or OBSERVING its memory is what it
\* was when the call began; the memory changes only in the step in which
\* observe has returned and the state goes from OBSERVING to IDLE, by one
\* appended entry, and there is at most one such update per call
C21_PhasesLeaveMemory ==
    /\ [](\A a \in AgentIds :
              /\ InPhase(a) => memory[a] = frame[a].memory_at_call
              /\ Len(updates[a]) <= n_calls[a])
    /\ [][\A a \in AgentIds :
             memory'[a] # memory[a] =>
                 /\ frame[a].at = "observe"
                 /\ state[a] = OBSERVING
                 /\ state'[a] = IDLE
                 /\ updates'[a] = Append(updates[a],
                        memory'[a].recent_actions[Len(memory'[a].recent_actions)])
                 /\ memory'[a].last_updated > memory[a].last_updated]_vars

\* the agent is OBSERVING in its third call, think having written to the
\* copy it was given, and its memory holds the two earlier updates
C21_Witness ==
    /\ state[BA_ID] = OBSERVING
    /\ frame[BA_ID].at = "observe"
    /\ n_calls[BA_ID] = 3
    /\ Len(memory[BA_ID].recent_actions) = 2
    /\ frame[BA_ID].context.memory = scribbled(memory[BA_ID])
    /\ frame[BA_ID].context.memory # memory[BA_ID]


Registry == [r \in {BUSINESS_ANALYST, LEAD_MANAGER} |->
                 IF r = BUSINESS_ANALYST THEN BA_ID ELSE LM_ID]

\* C22: the registry stays what the constructor made it, and a step changes
\* the state or the memory of an agent only if it is a step of a call on
\* that agent; every other agent's state and memory are left as they were
C22_OnlyOwnAgentChanges ==
    /\ [](agents = Registry)
    /\ [][\A a \in AgentIds :
             state'[a] # state[a] \/ memory'[a] # memory[a] =>
                 /\ CallInProgress(a) \/ frame'[a].at # "none"
                 /\ \A b \in AgentIds \ {a} :
                       state'[b] = state[b] /\ memory'[b] = memory[b]]_vars

\* the business analyst has executed task 1 and is idle with its one entry,
\* while the lead manager, its memory still empty, is executing task 2
C22_Witness ==
    /\ Len(memory[BA_ID].recent_actions) = 1
    /\ memory[BA_ID].recent_actions[1].task_id = 1
    /\ state[BA_ID] = IDLE
    /\ CallInProgress(LM_ID)
    /\ state[LM_ID] = ACTING
    /\ frame[LM_ID].task.id = 2
    /\ memory[LM_ID].recent_actions = <<>>
    /\ agents = Registry


\* C23: every agent in the registry has both its ai_client and its
\* sheets_manager set
C23_OnlyReadyAgentsRegistered ==
    \A r \in DOMAIN agents :
        deps[agents[r]].ai_client /\ deps[agents[r]].sheets_manager

\* C24: a task on which execute_task has been called has its assigned_agent
\* filled in: it is no longer None
C24_AssignedAgentFilled ==
    \A a \in AgentIds :
        /\ CallInProgress(a) => frame[a].task.assigned_agent # None
        /\ HasReturned(a) => last_return[a].task_assigned_agent # None

\* C25: a task is pending in the queue, in-progress while an agent executes
\* it, and after the call completed or failed according to the outcome
C25_StatusLifecycle ==
    /\ \A i \in 1..Len(task_queue) : task_queue[i].status = "pending"
    /\ \A a \in AgentIds :
          /\ CallInProgress(a) => frame[a].task.status = "in-progress"
          /\ HasReturned(a) =>
                last_return[a].task_status =
                    (IF last_return[a].outcome.value.success
                     THEN "completed" ELSE "failed")


\* C26: every task accepted by add_task is eventually passed to
\* execute_task, and never more than once, also when a drain pass raises
C26_EveryTaskExecuted ==
    \A id \in 1..MaxLoopTasks :
        /\ [](id < next_id => <>(Count(id, calls) = 1))
        /\ [](Count(id, calls) <= 1)

\* C26, amended: every task accepted by add_task is eventually dequeued,
\* exactly once; a task whose type is a str is then passed to execute_task,
\* once; a task popped by a loop turn that raised is never executed
C26_EveryTaskDequeuedOnce ==
    \A id \in 1..MaxLoopTasks :
        /\ [](id < next_id => <>(Count(id, Dequeued) = 1))
        /\ [](Count(id, Dequeued) <= 1)
        /\ [](QueuedStr(id) => <>(Count(id, calls) = 1))
        /\ [](Count(id, dropped) = 1 => [](Count(id, calls) = 0))

\* the turn that popped task 1 raised, the cycle slept and came back, task 2
\* has been executed and the cycle sleeps with an empty queue; task 1 was
\* never executed
C26_Witness ==
    /\ dropped = <<1>>
    /\ calls = <<2>>
    /\ last_return[BA_ID].task_id = 2
    /\ ~CallInProgress(BA_ID)
    /\ task_queue = <<>>
    /\ pc = "sleep"
    /\ sleep_for = DefaultInterval


NormalReturn == pc = "process" /\ pc' = "sleep" /\ sleep_for' = DefaultInterval

LastUpdate(a) == updates[a][Len(updates[a])]

\* C28: when no phase raised, the outcome's success is the success flag of
\* the act result, FALSE when the result has none, whatever observe returned,
\* and the memory has been updated with this call's result and learning
C28_SuccessIsActFlag ==
    \A a \in AgentIds :
        HasReturned(a) /\ last_return[a].exc = NoException =>
            /\ Len(updates[a]) = n_calls[a] - (IF CallInProgress(a) THEN 1 ELSE 0)
            /\ LastUpdate(a).task_id = last_return[a].task_id
            /\ LastUpdate(a).learning = last_return[a].outcome.value.learning
            /\ last_return[a].outcome.value.success =
                  (IF "success" \in DOMAIN LastUpdate(a).result
                   THEN LastUpdate(a).result.success ELSE FALSE)

\* act reported success and observe returned an error dict: the outcome is a
\* success and the memory was updated
C28_Witness ==
    /\ HasReturned(BA_ID)
    /\ last_return[BA_ID].exc = NoException
    /\ last_return[BA_ID].outcome.value.actions = [success |-> TRUE]
    /\ last_return[BA_ID].outcome.value.learning = [error |-> "ObserveFailed"]
    /\ last_return[BA_ID].outcome.value.success
    /\ Len(memory[BA_ID].recent_actions) = 1
    /\ n_calls[BA_ID] = 1


FullTrace == <<IDLE, THINKING, ACTING, OBSERVING, IDLE>>

\* C29: with the concrete agents no call ends in the engine's exception
\* handler; when think returned thoughts carrying an error, act makes no
\* sheets write call and reports success FALSE, the call goes through ACTING
\* and OBSERVING, the memory is updated and the outcome's success is FALSE
C29_ThinkErrorIsReturned ==
    \A a \in AgentIds :
        /\ HasReturned(a) => last_return[a].exc = NoException
        /\ CallInProgress(a) /\ frame[a].at \in {"act", "observe"}
              /\ "error" \in DOMAIN frame[a].thoughts =>
                 /\ writes[a] = <<>>
                 /\ frame[a].at = "observe" => ~frame[a].result.success
        /\ HasReturned(a) /\ ~CallInProgress(a)
              /\ "error" \in DOMAIN last_return[a].outcome.value.thoughts =>
                 /\ writes[a] = <<>>
                 /\ ~last_return[a].outcome.value.actions.success
                 /\ ~last_return[a].outcome.value.success
                 /\ trace[a] = FullTrace
                 /\ LastUpdate(a).task_id = last_return[a].task_id
                 /\ memory[a].recent_actions[Len(memory[a].recent_actions)]
                       = LastUpdate(a)

\* the language-model call of the business analyst failed although both its
\* dependencies are set: the call returned success FALSE with no write made,
\* and the lead manager's read failed the same way
C29_Witness ==
    /\ deps[BA_ID].ai_client /\ deps[BA_ID].sheets_manager
    /\ HasReturned(BA_ID) /\ ~CallInProgress(BA_ID)
    /\ last_return[BA_ID].outcome.value.thoughts = [error |-> "LLMError"]
    /\ ~last_return[BA_ID].outcome.value.success
    /\ writes[BA_ID] = <<>>
    /\ Len(memory[BA_ID].recent_actions) = 1
    /\ HasReturned(LM_ID) /\ ~CallInProgress(LM_ID)
    /\ last_return[LM_ID].outcome.value.thoughts = [error |-> "SheetsReadError"]
    /\ Len(memory[LM_ID].recent_actions) = 1


TheUser == users[get_user_by_email(users, UserEmail)]

AuthCall == n_auth' = n_auth + 1

\* C30: with five or more failed attempts counted the account has a lock
\* time, set to 30 minutes after the attempt that reached the count; the
\* count is the number of failed attempts since the last successful login,
\* not counting calls refused by the lock; while the lock has not expired a
\* call returns None whatever the password and changes nothing in the user;
\* a successful login sets the count to 0 and clears the lock time
C30_LoginLockout ==
    /\ [](/\ TheUser.failed_login_attempts >= MaxFailedAttempts =>
                TheUser.locked_until # None
          /\ TheUser.failed_login_attempts = auth_log.streak)
    /\ [][AuthCall /\ auth_log'.email = UserEmail =>
             /\ is_locked(TheUser, wall_clock) =>
                   /\ auth_log'.result = None
                   /\ users' = users
             /\ auth_log'.result # None =>
                   /\ ~is_locked(TheUser, wall_clock)
                   /\ auth_log'.password = UserPassword
                   /\ TheUser'.failed_login_attempts = 0
                   /\ TheUser'.locked_until = None
             /\ TheUser'.failed_login_attempts > TheUser.failed_login_attempts
                   /\ TheUser'.failed_login_attempts >= MaxFailedAttempts =>
                      /\ TheUser'.locked_until = isoformat(wall_clock + LockMinutes)
                      /\ is_locked(TheUser', wall_clock')]_vars

\* the fifth failed attempt locked the account, and a call with the right
\* password made before the lock expired was refused and left the count at 5
C30_Witness ==
    /\ TheUser.failed_login_attempts = 5
    /\ is_locked(TheUser, wall_clock)
    /\ wall_clock > 0
    /\ auth_log.email = UserEmail
    /\ auth_log.password = UserPassword
    /\ auth_log.was_locked
    /\ auth_log.result = None


====
